---- MODULE Spec2Model ----
(***************************************************************************)
(* A model of sqllm.py: the CSV loader with its interactive schema         *)
(* conflict protocol, the SQLite store it writes to, and the command loop  *)
(* (load, tables, query, ask) of run_cli_assistant.                        *)
(*                                                                         *)
(* The store is a function from the names of the existing tables to their  *)
(* declared schema and their rows.  Every wait for operator input and the  *)
(* round trip to the generation service is a value of pc; the code between *)
(* two waits is one action.  DDL statements are committed when they are    *)
(* executed (the sqlite3 module opens no transaction for DDL), so the      *)
(* store seen between DROP and CREATE is a state of its own.               *)
(***************************************************************************)
EXTENDS Integers, Sequences, FiniteSets, TLC

(* ------------------------------ bounds -------------------------------- *)

\* Largest number of rows a table of the store may hold.
MaxRows == 4

\* Number of invalid answers the operator may give in one conflict dialogue.
MaxInvalid == 2

(* ------------------------------ values -------------------------------- *)

\* A value of a DataFrame cell: its Python kind and a payload.  A float's
\* payload is in tenths (35 is 3.5); a string's payload is a code.
Val(k, v) == [k |-> k, v |-> v]

\* NaN / None, removed by dropna().
Null == Val("null", 0)

\* isinstance(val, int): bool is a subclass of int in Python.
IsInt(val) == val.k \in {"int", "bool"}

\* isinstance(val, float)
IsFloat(val) == val.k = "float"

\* The elements of a sequence, as a set.
Range(s) == {s[i] : i \in 1..Len(s)}

\* series.dropna()
DropNa(series) == SelectSeq(series, LAMBDA val : val # Null)

\* The set of SQLite types the loop of infer_sql_type collects.
TypesOf(series) ==
    {IF IsInt(val) THEN "INTEGER" ELSE IF IsFloat(val) THEN "REAL" ELSE "TEXT"
       : val \in Range(DropNa(series))}

\* infer_sql_type that decides by the first value that is not missing.
infer_sql_typeFirst(series) ==
    IF DropNa(series) = <<>> THEN "TEXT"
    ELSE IF IsInt(DropNa(series)[1]) THEN "INTEGER"
    ELSE IF IsFloat(DropNa(series)[1]) THEN "REAL"
    ELSE "TEXT"

infer_sql_type(series) ==
    IF DropNa(series) = <<>> THEN "TEXT"
    ELSE IF "TEXT" \in TypesOf(series) THEN "TEXT"
    ELSE IF "REAL" \in TypesOf(series) THEN "REAL"
    ELSE "INTEGER"

(* ----------------------------- datasets ------------------------------- *)

\* A DataFrame: the ordered column names and the rows, each row a function
\* from the column names to values.
DsA == [cols |-> <<"id", "price">>,
        rows |-> << [id |-> Val("int", 1), price |-> Val("float", 35)],
                    [id |-> Val("int", 2), price |-> Null] >>]

DsB == [cols |-> <<"id">>,
        rows |-> << [id |-> Val("str", 1)] >>]

\* A CSV file whose two column names differ only in case.
DsD == [cols |-> <<"k", "K">>,
        rows |-> << [k |-> Val("int", 1), K |-> Val("int", 2)] >>]

Datasets == {DsA, DsB, DsD}

\* df[col]
Column(d, col) == [i \in 1..Len(d.rows) |-> d.rows[i][col]]

\* The dict of infer_column_types, in column order: <<name, type>> pairs.
infer_column_types(d) ==
    [i \in 1..Len(d.cols) |-> <<d.cols[i], infer_sql_type(Column(d, d.cols[i]))>>]

(* ------------------------------ the store ----------------------------- *)

\* Table names the operator may type ("" is an empty answer; "T" and "t"
\* differ only in case).
Names == {"", "t", "T", "u"}

\* SQLite compares identifiers without regard to case.
Fold(n) == IF n = "T" THEN "t" ELSE n

\* The column names of a schema.
ColsOf(schema) == {schema[i][1] : i \in 1..Len(schema)}

\* The declared type of column c of a schema.
TypeOf(schema, c) ==
    schema[CHOOSE i \in 1..Len(schema) : schema[i][1] = c][2]

\* Two columns of a CREATE statement whose names differ at most in case:
\* SQLite rejects the statement ("duplicate column name").
FoldCol(c) == IF c = "K" THEN "k" ELSE c
DuplicateColumns(schema) ==
    \E i, j \in 1..Len(schema) : i # j /\ FoldCol(schema[i][1]) = FoldCol(schema[j][1])

\* The row of sqlite_master selected by "... AND name=?": an exact match.
Exists(tbls, n) == n \in DOMAIN tbls

\* The table an identifier in a statement denotes: a match up to case.
Resolves(tbls, n) == \E m \in DOMAIN tbls : Fold(m) = Fold(n)
Resolve(tbls, n) == CHOOSE m \in DOMAIN tbls : Fold(m) = Fold(n)

\* f without the key k.
Without(f, k) == [m \in DOMAIN f \ {k} |-> f[m]]

\* DROP TABLE IF EXISTS "n";
DropTable(tbls, n) ==
    IF Resolves(tbls, n) THEN Without(tbls, Resolve(tbls, n)) ELSE tbls

\* CREATE TABLE IF NOT EXISTS "n" (schema);  without effect when n denotes
\* an existing table.
CreateTable(tbls, n, schema) ==
    IF Resolves(tbls, n) THEN tbls
    ELSE [m \in DOMAIN tbls \cup {n} |->
            IF m = n THEN [schema |-> schema, rows |-> <<>>] ELSE tbls[m]]

\* The CREATE statement raises: only when the table is really to be created.
CreateFails(tbls, n, schema) == ~Resolves(tbls, n) /\ DuplicateColumns(schema)

\* The value SQLite stores for val in a column of declared type ty: the
\* sqlite3 module binds a bool as an integer, then the column affinity
\* applies (payloads of rendered numbers are codes above 1000).
StoreValue(ty, val) ==
    LET a == IF val.k = "bool" THEN Val("int", val.v) ELSE val
    IN  CASE a.k = "null" -> a
          [] ty = "INTEGER" /\ a.k = "float" /\ a.v % 10 = 0 -> Val("int", a.v \div 10)
          [] ty = "REAL" /\ a.k = "int" -> Val("float", a.v * 10)
          [] ty = "TEXT" /\ a.k = "int" -> Val("str", 1000 + a.v)
          [] ty = "TEXT" /\ a.k = "float" -> Val("str", 2000 + a.v)
          [] OTHER -> a

\* One row of the DataFrame as INSERT stores it in a table of that schema:
\* the columns the DataFrame lacks are NULL.
StoreRow(schema, d, row) ==
    [c \in ColsOf(schema) |->
        IF c \in Range(d.cols) THEN StoreValue(TypeOf(schema, c), row[c]) ELSE Null]

\* The rows of the DataFrame as stored, in order.
StoredRows(schema, d) == [i \in 1..Len(d.rows) |-> StoreRow(schema, d, d.rows[i])]

\* INSERT names every column of the DataFrame: it raises ("table has no
\* column named ...") when the table lacks one.
AppendFails(tbls, n, d) == ~(Range(d.cols) \subseteq ColsOf(tbls[Resolve(tbls, n)].schema))

\* AppendRows that replaces the rows of the table (if_exists="replace").
AppendRowsReplaces(tbls, n, d) ==
    LET m == Resolve(tbls, n)
    IN  [tbls EXCEPT ![m].rows = StoredRows(tbls[m].schema, d)]

\* df.to_sql(n, conn, if_exists="append", index=False) on an existing table.
AppendRows(tbls, n, d) ==
    LET m == Resolve(tbls, n)
    IN  [tbls EXCEPT ![m].rows = @ \o StoredRows(tbls[m].schema, d)]

(* ------------------------------ SQL text ------------------------------ *)

\* A text is a sequence of tokens: a code fence (three backticks), the tag
\* sql, white space, or one SQL statement.
Tok(kind, op, n) == [kind |-> kind, op |-> op, t |-> n]
Fence == Tok("fence", "", "")
Tag == Tok("sql", "", "")
Ws == Tok("ws", "", "")
Sql(op, n) == Tok("stmt", op, n)

\* The statements a text may hold.
SqlStmts == {Sql(op, n) : op \in {"SELECT", "DELETE", "DROP"}, n \in {"t", "u"}}

\* str.strip()
RECURSIVE LStrip(_)
LStrip(text) ==
    IF text # <<>> /\ Head(text) = Ws THEN LStrip(Tail(text)) ELSE text

RECURSIVE RStrip(_)
RStrip(text) ==
    IF text # <<>> /\ text[Len(text)] = Ws
      THEN RStrip(SubSeq(text, 1, Len(text) - 1)) ELSE text

Strip(text) == RStrip(LStrip(text))

\* The positions of the code fences of a text.
FencePositions(text) == {i \in 1..Len(text) : text[i] = Fence}

Min(S) == CHOOSE x \in S : \A y \in S : x <= y

\* StripFences with a pattern that knows no tag: the tag stays in the text.
StripFencesKeepsTag(reply) ==
    LET raw == Strip(reply)
        F == FencePositions(raw)
    IN  IF Cardinality(F) < 2 THEN raw
        ELSE LET i == Min(F)
                 j == Min(F \ {i})
             IN  Strip(SubSeq(raw, i + 1, j - 1))

\* The post-processing of the reply of the service: re.search of
\* ```(?:sql)?\s*(.*?)\s*``` finds the first fence that a second one follows;
\* group(1) lies between them, behind the optional tag.
StripFences(reply) ==
    LET raw == Strip(reply)
        F == FencePositions(raw)
    IN  IF Cardinality(F) < 2 THEN raw
        ELSE LET i == Min(F)
                 j == Min(F \ {i})
                 k == IF i + 1 < j /\ raw[i + 1] = Tag THEN i + 2 ELSE i + 1
             IN  Strip(SubSeq(raw, k, j - 1))

\* cursor.execute(text) raises: the text is not one statement, or the
\* statement names a table that does not exist.
ExecFails(tbls, text) ==
    /\ text # <<>>
    /\ \/ Len(text) > 1
       \/ text[1].kind # "stmt"
       \/ ~Resolves(tbls, text[1].t)

\* The store after cursor.execute(text) and conn.commit().
Exec(tbls, text) ==
    IF text = <<>> \/ text[1].op = "SELECT" THEN tbls
    ELSE IF text[1].op = "DROP" THEN DropTable(tbls, text[1].t)
    ELSE [tbls EXCEPT ![Resolve(tbls, text[1].t)].rows = <<>>]

(* ------------------------------ the state ----------------------------- *)

VARIABLES
    tables,       \* the store: table name -> [schema, rows]
    pc,           \* where the program waits
    cmd,          \* the command being served, or served last
    df,           \* the DataFrame of the load
    table_name,   \* the table name the operator entered
    final_name,   \* the name handle_schema_conflict returned
    conns,        \* connections opened by a called function and not closed
    cliConn,      \* the local conn of run_cli_assistant is an open connection
    sql,          \* the SQL text generate_sql_from_prompt returned
    invalid,      \* invalid answers given in the conflict dialogue
    store0,       \* the store when the command began
    log,          \* the statements the command has executed on the store
    out,          \* what the functions the command called returned
    series,       \* the column given to infer_sql_type on its own
    inferred,     \* the type infer_sql_type returned for it
    response,     \* the text of the generation service given to the
                  \* post-processing on its own
    raw_sql       \* the text the post-processing made of it

\* The variables of the calls of single functions.
pureVars == <<series, inferred, response, raw_sql>>

vars == <<tables, pc, cmd, df, table_name, final_name, conns, cliConn, sql,
          invalid, store0, log, out, series, inferred, response, raw_sql>>

NoDf == [cols |-> <<>>, rows |-> <<>>]

\* Results of the functions of one command, before any is called.
\* choice: the valid answer of the conflict dialogue; create, insert, gen:
\* how create_table_from_schema, insert_data and generate_sql_from_prompt
\* ended; calls: calls of the generation service; ran: how the execution of
\* the SQL text of query or ask ended.
NoOut == [choice |-> "-", create |-> "-", insert |-> "-", gen |-> "-",
          calls |-> 0, ran |-> "-"]

\* A statement executed on the store.
Stmt(op, n) == [op |-> op, t |-> n]

\* No result yet.
Pending == <<Tok("pending", "", "")>>

\* The assistant has started and waits for the first command.
Started ==
    /\ tables = <<>>
    /\ pc = "prompt"
    /\ cmd = "-"
    /\ df = NoDf
    /\ table_name = ""
    /\ final_name = ""
    /\ conns = 0
    /\ cliConn = FALSE
    /\ sql = <<>>
    /\ invalid = 0
    /\ store0 = <<>>
    /\ log = <<>>
    /\ out = NoOut

Init ==
    /\ Started
    /\ series = <<>>
    /\ inferred = "-"
    /\ response = <<>>
    /\ raw_sql = Pending

\* The rows of the DataFrame fit every table of the store.
Fits(d) == \A n \in DOMAIN tables : Len(tables[n].rows) + Len(d.rows) <= MaxRows

(* ------------------------------- load --------------------------------- *)

\* CmdLoad with a lookup of the name that disregards case.
CmdLoadAnyCase(d, n) ==
    /\ pc = "prompt"
    /\ Fits(d)
    /\ cmd' = "load"
    /\ df' = d
    /\ table_name' = n
    /\ conns' = 1
    /\ invalid' = 0
    /\ store0' = tables
    /\ log' = <<>>
    /\ out' = NoOut
    /\ IF Resolves(tables, n)
         THEN pc' = "choice" /\ final_name' = ""
         ELSE pc' = "create" /\ final_name' = n
    /\ UNCHANGED <<tables, cliConn, sql>>
    /\ UNCHANGED pureVars

\* "load" with a readable CSV: pd.read_csv, then create_table_from_schema
\* up to the first wait of handle_schema_conflict, or up to its return.
CmdLoad(d, n) ==
    /\ pc = "prompt"
    /\ Fits(d)
    /\ cmd' = "load"
    /\ df' = d
    /\ table_name' = n
    /\ conns' = 1
    /\ invalid' = 0
    /\ store0' = tables
    /\ log' = <<>>
    /\ out' = NoOut
    /\ IF Exists(tables, n)
         THEN pc' = "choice" /\ final_name' = ""
         ELSE pc' = "create" /\ final_name' = n
    /\ UNCHANGED <<tables, cliConn, sql>>
    /\ UNCHANGED pureVars

\* "load" with a CSV file that is missing or malformed: pd.read_csv raises.
CmdLoadBadCsv(n) ==
    /\ pc = "prompt"
    /\ cmd' = "load"
    /\ df' = NoDf
    /\ table_name' = n
    /\ conns' = 0
    /\ invalid' = 0
    /\ store0' = tables
    /\ log' = <<>>
    /\ out' = NoOut
    /\ pc' = "except"
    /\ final_name' = ""
    /\ UNCHANGED <<tables, cliConn, sql>>
    /\ UNCHANGED pureVars

\* Answers the operator may type at "Choose action".
Answers == {"O", "o", " r", "R", "S ", "s", "", "x", "OS", "y"}

\* input(...).strip().upper() of an answer.
Choice(a) ==
    CASE a \in {"O", "o"} -> "O"
      [] a \in {" r", "R"} -> "R"
      [] a \in {"S ", "s"} -> "S"
      [] a = "x" -> "X"
      [] a = "y" -> "Y"
      [] OTHER -> a

\* Some answer the operator may type is read as c.
Answered(c) == \E a \in Answers : Choice(a) = c

\* ChooseOverwrite whose DROP statement has no effect on the table.
ChooseOverwriteKeeps ==
    /\ pc = "choice"
    /\ log' = Append(log, Stmt("DROP", table_name))
    /\ final_name' = table_name
    /\ out' = [out EXCEPT !.choice = "O"]
    /\ pc' = "create"
    /\ UNCHANGED <<tables, cliConn, sql, cmd, df, table_name, conns, invalid, store0>>
    /\ UNCHANGED pureVars

\* ChooseOverwrite that returns the name and executes no statement: the
\* table is still there when the CREATE is executed.
ChooseOverwriteSilent ==
    /\ pc = "choice"
    /\ final_name' = table_name
    /\ out' = [out EXCEPT !.choice = "O"]
    /\ pc' = "create"
    /\ UNCHANGED <<tables, log, cliConn, sql, cmd, df, table_name, conns, invalid, store0>>
    /\ UNCHANGED pureVars

\* The answer O: the table is dropped and its name is returned.
ChooseOverwrite ==
    /\ pc = "choice"
    /\ Answered("O")
    /\ tables' = DropTable(tables, table_name)
    /\ log' = Append(log, Stmt("DROP", table_name))
    /\ final_name' = table_name
    /\ out' = [out EXCEPT !.choice = "O"]
    /\ pc' = "create"
    /\ UNCHANGED <<cliConn, sql, cmd, df, table_name, conns, invalid, store0>>
    /\ UNCHANGED pureVars

\* The answer R: the program asks for the new name.
ChooseRename ==
    /\ pc = "choice"
    /\ Answered("R")
    /\ pc' = "newname"
    /\ out' = [out EXCEPT !.choice = "R"]
    /\ UNCHANGED <<cliConn, sql, tables, cmd, df, table_name, final_name, conns,
                   invalid, store0, log>>
    /\ UNCHANGED pureVars

\* EnterNewName that renames the table in conflict: the original is dropped.
EnterNewNameDrops(n) ==
    /\ pc = "newname"
    /\ final_name' = n
    /\ tables' = DropTable(tables, table_name)
    /\ pc' = "create"
    /\ UNCHANGED <<cliConn, sql, cmd, df, table_name, conns, invalid, store0, log, out>>
    /\ UNCHANGED pureVars

\* The new name, as typed: it is returned without a look at the store.
EnterNewName(n) ==
    /\ pc = "newname"
    /\ final_name' = n
    /\ pc' = "create"
    /\ UNCHANGED <<cliConn, sql, tables, cmd, df, table_name, conns, invalid, store0, log, out>>
    /\ UNCHANGED pureVars

\* ChooseSkip with a DROP of the table before the return.
ChooseSkipDrops ==
    /\ pc = "choice"
    /\ conns' = 0
    /\ tables' = DropTable(tables, table_name)
    /\ out' = [out EXCEPT !.choice = "S", !.create = "None"]
    /\ pc' = "done"
    /\ UNCHANGED <<cliConn, sql, cmd, df, table_name, final_name, invalid, store0, log>>
    /\ UNCHANGED pureVars

\* The answer S: handle_schema_conflict returns None, and
\* create_table_from_schema closes the connection and returns None; the
\* load does not call insert_data.
ChooseSkip ==
    /\ pc = "choice"
    /\ Answered("S")
    /\ conns' = 0
    /\ out' = [out EXCEPT !.choice = "S", !.create = "None"]
    /\ pc' = "done"
    /\ UNCHANGED <<cliConn, sql, tables, cmd, df, table_name, final_name, invalid, store0, log>>
    /\ UNCHANGED pureVars

\* ChooseInvalid that takes an answer it does not know for Overwrite.
ChooseInvalidOverwrites ==
    /\ pc = "choice"
    /\ tables' = DropTable(tables, table_name)
    /\ log' = Append(log, Stmt("DROP", table_name))
    /\ final_name' = table_name
    /\ pc' = "create"
    /\ UNCHANGED <<cliConn, sql, cmd, df, table_name, conns, invalid, store0, out>>
    /\ UNCHANGED pureVars

\* Any other answer: the prompt is repeated.
ChooseInvalid ==
    /\ pc = "choice"
    /\ \E a \in Answers : Choice(a) \notin {"O", "R", "S"}
    /\ invalid < MaxInvalid
    /\ invalid' = invalid + 1
    /\ UNCHANGED <<cliConn, sql, tables, pc, cmd, df, table_name, final_name, conns,
                   store0, log, out>>
    /\ UNCHANGED pureVars

\* The rest of create_table_from_schema: infer the schema, execute the
\* CREATE statement, commit, close, return the name; then the test of the
\* load on the returned name.
Create ==
    /\ pc = "create"
    /\ LET schema == infer_column_types(df)
       IN  IF CreateFails(tables, final_name, schema)
             THEN /\ pc' = "except"
                  /\ out' = [out EXCEPT !.create = "raised"]
                  /\ UNCHANGED <<tables, log, conns>>
             ELSE /\ tables' = CreateTable(tables, final_name, schema)
                  /\ log' = Append(log, Stmt("CREATE", final_name))
                  /\ conns' = 0
                  /\ out' = [out EXCEPT !.create = "name"]
                  /\ pc' = IF final_name # "" THEN "insert" ELSE "done"
    /\ UNCHANGED <<cliConn, sql, cmd, df, table_name, final_name, invalid, store0>>
    /\ UNCHANGED pureVars

\* InsertData without the test for the table: the INSERT statements go to
\* the table the name denotes.
InsertDataUnchecked ==
    /\ pc = "insert"
    /\ IF AppendFails(tables, final_name, df)
         THEN /\ out' = [out EXCEPT !.insert = "raised"]
              /\ pc' = "except"
              /\ conns' = 1
              /\ UNCHANGED <<tables, log>>
         ELSE /\ tables' = AppendRows(tables, final_name, df)
              /\ log' = Append(log, Stmt("APPEND", final_name))
              /\ out' = [out EXCEPT !.insert = "done"]
              /\ pc' = "done"
              /\ UNCHANGED conns
    /\ UNCHANGED <<cliConn, sql, cmd, df, table_name, final_name, invalid, store0>>
    /\ UNCHANGED pureVars

\* insert_data(df, final_name, db_path) as the load calls it.
InsertData ==
    /\ pc = "insert"
    /\ IF ~Exists(tables, final_name)
         THEN /\ out' = [out EXCEPT !.insert = "aborted"]
              /\ pc' = "done"
              /\ UNCHANGED <<tables, log, conns>>
         ELSE IF AppendFails(tables, final_name, df)
         THEN /\ out' = [out EXCEPT !.insert = "raised"]
              /\ pc' = "except"
              /\ conns' = 1
              /\ UNCHANGED <<tables, log>>
         ELSE /\ tables' = AppendRows(tables, final_name, df)
              /\ log' = Append(log, Stmt("APPEND", final_name))
              /\ out' = [out EXCEPT !.insert = "done"]
              /\ pc' = "done"
              /\ UNCHANGED conns
    /\ UNCHANGED <<cliConn, sql, cmd, df, table_name, final_name, invalid, store0>>
    /\ UNCHANGED pureVars

\* The except clause of the load: the error is printed; the frames of the
\* exception are released and with them the connection they still held.
LoadExcept ==
    /\ pc = "except"
    /\ cmd = "load"
    /\ conns' = 0
    /\ pc' = "done"
    /\ UNCHANGED <<cliConn, sql, tables, cmd, df, table_name, final_name, invalid, store0,
                   log, out>>
    /\ UNCHANGED pureVars

(* ------------------------- tables and query -------------------------- *)

\* "tables": the names of the tables are listed.
CmdTables ==
    /\ pc = "prompt"
    /\ cmd' = "tables"
    /\ cliConn' = FALSE
    /\ store0' = tables
    /\ pc' = "done"
    /\ UNCHANGED <<tables, df, table_name, final_name, conns, sql, invalid, log, out>>
    /\ UNCHANGED pureVars

\* The try block the query command and the ask command share: connect,
\* execute, print, commit, close.  When execute raises, the except clause
\* prints the error and conn is left open.
RunSql(text) ==
    IF ExecFails(tables, text)
      THEN /\ cliConn' = TRUE
           /\ out' = [out EXCEPT !.ran = "raised"]
           /\ UNCHANGED <<tables, log>>
      ELSE /\ cliConn' = FALSE
           /\ tables' = Exec(tables, text)
           /\ log' = Append(log, Stmt("SQL", ""))
           /\ out' = [out EXCEPT !.ran = "done"]

\* "query" with the SQL text the operator enters.
CmdQuery(text) ==
    /\ pc = "prompt"
    /\ cmd' = "query"
    /\ store0' = tables
    /\ RunSql(Strip(text))
    /\ pc' = "done"
    /\ UNCHANGED <<df, table_name, final_name, conns, sql, invalid>>
    /\ UNCHANGED pureVars

(* -------------------------------- ask --------------------------------- *)

\* PRAGMA table_info('n') is built by pasting n between quotes: a name
\* holding a quote makes a statement SQLite cannot parse.
PragmaFails(n) == n = "q'"

\* get_table_schema returns a schema: n denotes a table.
HasSchema(tbls, n) == Resolves(tbls, n)

\* "ask": the table name and the question are read, then
\* generate_sql_from_prompt runs up to the call of the generation service.
\* An error of the schema lookup is caught nowhere.
CmdAsk(n) ==
    /\ pc = "prompt"
    /\ cmd' = "ask"
    /\ table_name' = n
    /\ store0' = tables
    /\ IF PragmaFails(n)
         THEN /\ pc' = "crashed"
              /\ conns' = 1
              /\ out' = [out EXCEPT !.gen = "raised"]
         ELSE IF ~HasSchema(tables, n)
         THEN /\ pc' = "done"
              /\ out' = [out EXCEPT !.gen = "None"]
              /\ UNCHANGED conns
         ELSE /\ pc' = "llm"
              /\ out' = [out EXCEPT !.calls = 1]
              /\ UNCHANGED conns
    /\ UNCHANGED <<tables, df, final_name, cliConn, sql, invalid, log>>
    /\ UNCHANGED pureVars

\* The service replies: the reply is post-processed and returned; the ask
\* command shows it and asks for confirmation unless it is empty.
LlmReply(reply) ==
    /\ pc = "llm"
    /\ sql' = StripFences(reply)
    /\ out' = [out EXCEPT !.gen = "sql"]
    /\ pc' = IF sql' # <<>> THEN "confirm" ELSE "done"
    /\ UNCHANGED <<tables, cmd, df, table_name, final_name, conns, cliConn,
                   invalid, store0, log>>
    /\ UNCHANGED pureVars

\* LlmError without the except clause: the error leaves
\* generate_sql_from_prompt and the ask command.
LlmErrorPropagates ==
    /\ pc = "llm"
    /\ out' = [out EXCEPT !.gen = "raised"]
    /\ pc' = "crashed"
    /\ UNCHANGED <<tables, cmd, df, table_name, final_name, conns, cliConn, sql,
                   invalid, store0, log>>
    /\ UNCHANGED pureVars

\* The call of the service raises: the error is printed, None is returned.
LlmError ==
    /\ pc = "llm"
    /\ out' = [out EXCEPT !.gen = "None"]
    /\ pc' = "done"
    /\ UNCHANGED <<tables, cmd, df, table_name, final_name, conns, cliConn, sql,
                   invalid, store0, log>>
    /\ UNCHANGED pureVars

\* The answer y to "Would you like to execute this query?".
ConfirmYes ==
    /\ pc = "confirm"
    /\ RunSql(sql)
    /\ pc' = "done"
    /\ UNCHANGED <<cmd, df, table_name, final_name, conns, sql, invalid, store0>>
    /\ UNCHANGED pureVars

\* ConfirmNo that runs the statement whatever the answer.
ConfirmNoRuns ==
    /\ pc = "confirm"
    /\ tables' = IF ExecFails(tables, sql) THEN tables ELSE Exec(tables, sql)
    /\ pc' = "done"
    /\ UNCHANGED <<cmd, df, table_name, final_name, conns, cliConn, sql,
                   invalid, store0, log, out>>
    /\ UNCHANGED pureVars

\* Any other answer.
ConfirmNo ==
    /\ pc = "confirm"
    /\ pc' = "done"
    /\ UNCHANGED <<tables, cmd, df, table_name, final_name, conns, cliConn, sql,
                   invalid, store0, log, out>>
    /\ UNCHANGED pureVars

(* --------------------------- other commands --------------------------- *)

\* "help", or a command the assistant does not know: a message is printed.
CmdOther ==
    /\ pc = "prompt"
    /\ cmd' = "other"
    /\ store0' = tables
    /\ pc' = "done"
    /\ UNCHANGED <<tables, df, table_name, final_name, conns, cliConn, sql,
                   invalid, log, out>>
    /\ UNCHANGED pureVars

\* "exit" leaves the loop.
CmdExit ==
    /\ pc = "prompt"
    /\ cmd' = "exit"
    /\ pc' = "exited"
    /\ UNCHANGED <<tables, df, table_name, final_name, conns, cliConn, sql,
                   invalid, store0, log, out>>
    /\ UNCHANGED pureVars

\* Table names the operator may give to ask.
AskNames == Names \cup {"q'"}

\* SQL texts the operator may enter.
QueryTexts == {<<s>> : s \in SqlStmts} \cup {<<>>, <<Ws>>, <<Fence>>}

\* Replies of the generation service.
Replies ==
    {<<s>> : s \in {Sql("SELECT", "t"), Sql("DROP", "t")}}
    \cup {<<Fence, Tag, Ws, Sql("DROP", "t"), Ws, Fence>>,
          <<Fence, Sql("SELECT", "t"), Fence>>,
          <<Ws, Fence, Sql("DELETE", "t")>>,
          <<Fence, Fence>>}

\* The end of the body of the command loop: back to the ">> " prompt.  The
\* locals of the finished command are not read again.
LoopBack ==
    /\ pc = "done"
    /\ pc' = "prompt"
    /\ cmd' = "-"
    /\ df' = NoDf
    /\ table_name' = ""
    /\ final_name' = ""
    /\ invalid' = 0
    /\ store0' = <<>>
    /\ log' = <<>>
    /\ out' = NoOut
    /\ sql' = <<>>
    /\ UNCHANGED <<tables, conns, cliConn>>
    /\ UNCHANGED pureVars

Next ==
    \/ \E d \in Datasets, n \in Names : CmdLoad(d, n)
    \/ \E n \in Names : CmdLoadBadCsv(n)
    \/ ChooseOverwrite
    \/ ChooseRename
    \/ \E n \in Names : EnterNewName(n)
    \/ ChooseSkip
    \/ ChooseInvalid
    \/ Create
    \/ InsertData
    \/ LoadExcept
    \/ CmdTables
    \/ \E text \in QueryTexts : CmdQuery(text)
    \/ \E n \in AskNames : CmdAsk(n)
    \/ \E reply \in Replies : LlmReply(reply)
    \/ LlmError
    \/ ConfirmYes
    \/ ConfirmNo
    \/ CmdOther
    \/ CmdExit
    \/ LoopBack

Spec == Init /\ [][Next]_vars

(* ------------------- infer_sql_type on one column --------------------- *)

\* Longest column given to infer_sql_type.
MaxLen == 3

\* Values of a cell: two whole numbers, two fractional numbers, a string, a
\* bool and a missing value.
Values == {Val("int", 1), Val("int", 2), Val("float", 35), Val("float", 20),
           Val("str", 1), Val("bool", 1), Null}

\* The columns of at most MaxLen values.
SeriesSet == UNION {[1..n -> Values] : n \in 0..MaxLen}

InitInfer ==
    /\ Started
    /\ series \in SeriesSet
    /\ inferred = "-"
    /\ response = <<>>
    /\ raw_sql = Pending

\* infer_sql_type(series) is called.
InferType ==
    /\ inferred = "-"
    /\ inferred' = infer_sql_type(series)
    /\ UNCHANGED <<tables, pc, cmd, df, table_name, final_name, conns, cliConn,
                   sql, invalid, store0, log, out, series, response, raw_sql>>

\* The same values arrive in another order: two of them change places.
Reorder(i, j) ==
    /\ inferred # "-"
    /\ i < j /\ j <= Len(series)
    /\ series[i] # series[j]
    /\ series' = [series EXCEPT ![i] = series[j], ![j] = series[i]]
    /\ inferred' = infer_sql_type(series')
    /\ UNCHANGED <<tables, pc, cmd, df, table_name, final_name, conns, cliConn,
                   sql, invalid, store0, log, out, response, raw_sql>>

NextInfer ==
    \/ InferType
    \/ \E i, j \in 1..MaxLen : Reorder(i, j)

SpecInfer == InitInfer /\ [][NextInfer]_vars

(* ------------------ the post-processing of one reply ------------------ *)

\* Longest reply, in tokens.
MaxText == 6

\* The tokens of a reply.
Tokens == {Fence, Tag, Ws, Sql("SELECT", "t")}

\* The replies of at most MaxText tokens.
AllReplies == UNION {[1..n -> Tokens] : n \in 0..MaxText}

InitFence ==
    /\ Started
    /\ series = <<>>
    /\ inferred = "-"
    /\ response \in AllReplies
    /\ raw_sql = Pending

\* Lines 316-328 of generate_sql_from_prompt on the response.
PostProcess ==
    /\ raw_sql = Pending
    /\ raw_sql' = StripFences(response)
    /\ UNCHANGED <<tables, pc, cmd, df, table_name, final_name, conns, cliConn,
                   sql, invalid, store0, log, out, series, inferred, response>>

NextFence == PostProcess

SpecFence == InitFence /\ [][NextFence]_vars

(* ------------------------------ properties ---------------------------- *)

\* A load has ended, and neither function it called raised.
LoadDone == pc = "done" /\ cmd = "load"

\* The table the DataFrame of the load makes: the inferred schema and the
\* rows as stored under it.
Loaded(d) ==
    [schema |-> infer_column_types(d),
     rows |-> StoredRows(infer_column_types(d), d)]

\* rows ends with the rows of tail.
EndsWith(rows, tail) ==
    /\ Len(rows) >= Len(tail)
    /\ SubSeq(rows, Len(rows) - Len(tail) + 1, Len(rows)) = tail

\* C1: whenever a load returns a final table name (create_table_from_schema
\* returned a name the load takes for one, and the load ended without an
\* error), the store holds a table of exactly that name whose schema is the
\* schema inferred from the dataset and whose rows end with all rows of the
\* dataset.
C1_LoadGuarantee ==
    (LoadDone /\ out.create = "name" /\ final_name # "") =>
        /\ Exists(tables, final_name)
        /\ tables[final_name].schema = infer_column_types(df)
        /\ EndsWith(tables[final_name].rows,
                    StoredRows(infer_column_types(df), df))

\* C2: when the operator answers Skip, create_table_from_schema returns
\* None, insert_data is not called, no statement is executed and the store
\* is the store from before the load.
C2_SkipLeavesStore ==
    (cmd = "load" /\ out.choice = "S") =>
        /\ pc = "done"
        /\ out.create = "None"
        /\ out.insert = "-"
        /\ log = <<>>
        /\ tables = store0

\* A load on an existing table that holds rows has been skipped.
C2_Witness ==
    /\ LoadDone
    /\ out.choice = "S"
    /\ Exists(store0, table_name)
    /\ store0[table_name].rows # <<>>
    /\ df.rows # <<>>

\* The conflict dialogue of the load ended with Rename.
Renamed == cmd = "load" /\ out.choice = "R" /\ pc \in {"create", "insert", "except", "done"}

\* C3: when the operator answers Rename with any new name, the original
\* table keeps its schema and its rows, and the CREATE and the append of the
\* load act only on the table of the new name.
C3_RenameLeavesOriginal ==
    Renamed =>
        /\ Exists(tables, table_name)
        /\ tables[table_name] = store0[table_name]
        /\ \A i \in 1..Len(log) : log[i].t = final_name /\ log[i].op # "DROP"

\* The load of a dataset made exactly the table that is now in conflict.
SameAgain == Exists(store0, table_name) /\ store0[table_name] = Loaded(df)

\* C4: a load of the same dataset into the same name a second time, with
\* Overwrite at the conflict, leaves the table with one copy of the rows of
\* the dataset.
C4_OverwriteIdempotent ==
    (LoadDone /\ out.choice = "O" /\ out.insert = "done" /\ SameAgain) =>
        /\ Exists(tables, table_name)
        /\ tables[table_name] = Loaded(df)
        /\ Len(tables[table_name].rows) = Len(df.rows)

\* A dataset of two rows has been loaded a second time with Overwrite.
C4_Witness ==
    /\ LoadDone
    /\ out.choice = "O"
    /\ out.insert = "done"
    /\ SameAgain
    /\ Len(df.rows) = 2
    /\ Len(tables[table_name].rows) = 2

\* C5: with Overwrite the existing table is dropped before the CREATE is
\* executed (it is absent while the CREATE is pending, and DROP is the first
\* statement of the load), and once create_table_from_schema has returned,
\* the table of that name has the newly inferred schema and holds no row but
\* the rows of the new dataset that insert_data appended.
C5_OverwriteReplaces ==
    (cmd = "load" /\ out.choice = "O") =>
        /\ pc \in {"create", "insert", "except", "done"}
        /\ final_name = table_name
        /\ log # <<>> /\ log[1] = Stmt("DROP", table_name)
        /\ \A i \in 2..Len(log) : log[i].op # "DROP"
        /\ pc = "create" => ~Resolves(tables, table_name) /\ Len(log) = 1
        /\ out.create = "name" =>
             /\ Exists(tables, table_name)
             /\ tables[table_name].schema = infer_column_types(df)
             /\ tables[table_name].rows =
                  IF out.insert = "done"
                    THEN StoredRows(infer_column_types(df), df) ELSE <<>>
             /\ Len(log) >= 2 /\ log[2] = Stmt("CREATE", table_name)

\* An Overwrite has replaced a table whose schema and rows were different.
C5_Witness ==
    /\ LoadDone
    /\ out.choice = "O"
    /\ out.insert = "done"
    /\ store0[table_name].schema # infer_column_types(df)
    /\ store0[table_name].rows # <<>>
    /\ tables[table_name] = Loaded(df)
    /\ df.rows # <<>>

\* The name of the load was absent from the store when the load began.
AbsentName ==
    cmd = "load" /\ df # NoDf /\ ~Exists(store0, table_name)

\* C6: for a name absent from the store, handle_schema_conflict asks for no
\* decision and returns the original name, and when it returns nothing has
\* been executed on the store: the store is the store from before.
C6_AbsentProceeds ==
    AbsentName =>
        /\ pc \notin {"choice", "newname"}
        /\ out.choice = "-"
        /\ invalid = 0
        /\ final_name = table_name
        /\ \A i \in 1..Len(log) : log[i].op # "DROP"
        /\ pc = "create" => (tables = store0 /\ log = <<>>)

\* handle_schema_conflict has returned an absent name while the store holds
\* a table with rows.
C6_Witness ==
    /\ AbsentName
    /\ pc = "create"
    /\ table_name # ""
    /\ \E n \in DOMAIN tables : tables[n].rows # <<>>

\* C7: appending is additive.  A step of insert_data that succeeds adds
\* exactly the rows of the dataset, in order, behind the rows the table had
\* (n more rows, none lost, none merged), and changes no other table and not
\* the set of tables.
C7_AppendAdditive ==
    [][(pc = "insert" /\ out'.insert = "done") =>
          /\ DOMAIN tables' = DOMAIN tables
          /\ Len(tables'[final_name].rows) =
                Len(tables[final_name].rows) + Len(df.rows)
          /\ SubSeq(tables'[final_name].rows, 1, Len(tables[final_name].rows))
                = tables[final_name].rows
          /\ \A m \in DOMAIN tables \ {final_name} : tables'[m] = tables[m]]_vars

\* The same dataset of n > 0 rows has been appended twice to one table, which
\* holds 2n rows, beside another table that holds it once.
C7_Witness ==
    /\ LoadDone
    /\ out.insert = "done"
    /\ df.rows # <<>>
    /\ tables[final_name].rows = Loaded(df).rows \o Loaded(df).rows
    /\ \E m \in DOMAIN tables \ {final_name} : tables[m] = Loaded(df)

\* C8: insert_data for a name that is not the name of a table of the store
\* reports the failure and returns: no table is created, no row is
\* appended, the store is as before.
C8_InsertNeedsTable ==
    [][(pc = "insert" /\ ~Exists(tables, final_name)) =>
          /\ out'.insert = "aborted"
          /\ pc' = "done"
          /\ tables' = tables
          /\ log' = log]_vars

\* insert_data has aborted on a missing table.
C8_Witness ==
    /\ LoadDone
    /\ out.insert = "aborted"
    /\ ~Exists(tables, final_name)
    /\ df.rows # <<>>
    /\ tables = store0

\* The table name of the ask has no schema in the store.
NoSchema == cmd = "ask" /\ ~HasSchema(store0, table_name)

\* C9: for a table name without a schema generate_sql_from_prompt returns
\* None, the generation service is not called, and the ask command executes
\* no SQL and ends.
C9_NoSchemaNoCall ==
    NoSchema =>
        /\ out.gen = "None"
        /\ out.calls = 0
        /\ out.ran = "-"
        /\ log = <<>>
        /\ tables = store0
        /\ pc = "done"

\* C10: in the ask command the store changes, and a statement is executed,
\* only after the operator has answered y to the confirmation:
\* generate_sql_from_prompt executes nothing, and neither does any answer
\* other than y.
C10_ExecuteOnlyAfterYes ==
    /\ (cmd = "ask" /\ out.ran = "-") => (tables = store0 /\ log = <<>>)
    /\ (cmd = "ask" /\ pc \in {"llm", "confirm"}) => out.ran = "-"
    /\ (pc = "confirm") => (cmd = "ask" /\ out.gen = "sql" /\ sql # <<>>)

\* A generated statement has been executed after the answer y and has
\* changed the store.
C10_Witness ==
    /\ pc = "done"
    /\ cmd = "ask"
    /\ out.ran = "done"
    /\ tables # store0

\* C11: when the call of the generation service fails,
\* generate_sql_from_prompt returns None (the step that ends the call
\* without SQL ends it with None, not with an exception), the ask command
\* goes to its end without the confirmation and without executing anything,
\* and the store is unchanged.
C11_ServiceErrorNoSql ==
    [][(pc = "llm" /\ out'.gen # "sql") =>
          /\ out'.gen = "None"
          /\ out'.ran = "-"
          /\ pc' = "done"
          /\ sql' = <<>>
          /\ tables' = tables
          /\ tables' = store0
          /\ log' = <<>>]_vars

\* The service has failed on a question about a table that holds rows.
C11_Witness ==
    /\ pc = "done"
    /\ cmd = "ask"
    /\ out.calls = 1
    /\ out.gen = "None"
    /\ Resolves(tables, table_name)
    /\ tables[Resolve(tables, table_name)].rows # <<>>

\* The load found its name in the store, so the conflict dialogue runs.
InConflict == cmd = "load" /\ df # NoDf /\ Exists(store0, table_name)

\* C12: in the conflict dialogue an answer other than O, R or S (trimmed,
\* upper-cased) only repeats the prompt: while the dialogue waits, after any
\* number of such answers, the store is the store from before and nothing
\* has been executed; the dialogue is left only by a valid answer, and what
\* the store is then depends on that answer alone.
C12_InvalidReprompts ==
    /\ pc = "choice" =>
         /\ InConflict
         /\ tables = store0
         /\ log = <<>>
         /\ out = NoOut
         /\ final_name = ""
    /\ (InConflict /\ out.choice = "-") => pc = "choice"
    /\ (InConflict /\ pc \in {"newname", "create"}) =>
         /\ out.choice \in {"O", "R"}
         /\ tables = IF out.choice = "O" THEN DropTable(store0, table_name) ELSE store0
    /\ (InConflict /\ out.choice = "S") => (pc = "done" /\ tables = store0)
    /\ \A a \in Answers : Choice(a) \in {"O", "R", "S"} <=> a \in {"O", "o", " r", "R", "S ", "s"}

\* A valid answer has been given after two invalid ones.
C12_Witness ==
    /\ InConflict
    /\ invalid >= 2
    /\ out.choice = "O"
    /\ pc = "create"
    /\ store0[table_name].rows # <<>>

\* C13: no error ends the process: the assistant is never left by an
\* exception, whatever fails inside a command.
C13_NoFatalError == pc # "crashed"

\* C14: every connection an operation opened is closed when the operation
\* ends, also when it ends by an exception: at the except clause of the
\* load, at the end of a command and at the prompt no connection is open.
C14_ConnectionsClosed ==
    pc \in {"except", "done", "prompt"} => (conns = 0 /\ ~cliConn)

\* C15: no connection is open while the program waits for the operator in
\* the conflict dialogue (for the choice or for the new name).
C15_NoConnectionAcrossInput ==
    pc \in {"choice", "newname"} => (conns = 0 /\ ~cliConn)

\* C18: in a load a table leaves the store only by the step taken on the
\* answer Overwrite, and the table that leaves is the table of the name the
\* load was given: no other step of a load (no conflict, Rename, Skip, an
\* invalid answer, CREATE, append, an error) removes a table.
C18_DropOnlyByOverwrite ==
    [][(cmd = "load" /\ ~(DOMAIN tables \subseteq DOMAIN tables')) =>
          /\ pc = "choice"
          /\ out.choice = "-"
          /\ out'.choice = "O"
          /\ DOMAIN tables \ DOMAIN tables' = {table_name}]_vars

\* The Overwrite step has removed the table of the load and left another.
C18_Witness ==
    /\ cmd = "load"
    /\ pc = "create"
    /\ out.choice = "O"
    /\ Exists(store0, table_name)
    /\ ~Exists(tables, table_name)
    /\ DOMAIN tables # {}
    /\ DOMAIN tables = DOMAIN store0 \ {table_name}

\* C19: a load that ends by reporting an error leaves the store as it was
\* before the command; stated for what the claim singles out: every table
\* that held rows before the load is still there, with its schema and its
\* rows, when the error is reported.
C19_FailedLoadKeepsStore ==
    (cmd = "load" /\ pc = "except") =>
        \A n \in DOMAIN store0 :
            store0[n].rows # <<>> => (Exists(tables, n) /\ tables[n] = store0[n])

\* C20: whenever create_table_from_schema has returned a name (the creation
\* was not skipped), the load calls insert_data on that name, and a table
\* this load created holds the rows of the dataset when the load ends.
C20_InsertFollowsCreate ==
    (LoadDone /\ out.create = "name") =>
        /\ out.insert # "-"
        /\ (Exists(tables, final_name) /\ ~Exists(store0, final_name)) =>
              tables[final_name].rows = StoredRows(infer_column_types(df), df)

\* The kinds of the values of a column that are not missing.
KindsOf(s) == {s[i].k : i \in 1..Len(s)} \ {"null"}

\* The kinds of whole numbers (in Python a bool is an int) and of
\* fractional numbers.
WholeKinds == {"int", "bool"}
FractionalKinds == {"float"}

\* The type the rule of the claim gives to a set of kinds.
TypeOfKinds(K) ==
    IF K = {} \/ ~(K \subseteq WholeKinds \cup FractionalKinds) THEN "TEXT"
    ELSE IF K \cap FractionalKinds # {} THEN "REAL"
    ELSE "INTEGER"

\* C16: infer_sql_type returns a type for every column, and the type is
\* the one the set of kinds of its values that are not missing determines:
\* TEXT for no such value or for a value that is no number, else REAL when a
\* value is fractional, else INTEGER; the values in any other order give
\* the same type.
C16_InferByKinds ==
    inferred # "-" =>
        /\ inferred \in {"INTEGER", "REAL", "TEXT"}
        /\ inferred = TypeOfKinds(KindsOf(series))

\* A column that begins with a whole number and holds a fractional number
\* and a missing value has been given the type REAL.
C16_Witness ==
    /\ inferred = "REAL"
    /\ Len(series) = 3
    /\ series[1].k = "int"
    /\ KindsOf(series) = {"int", "float"}
    /\ Null \in Range(series)

\* The text is one fenced block: a fence, the optional tag, the interior
\* without a fence, a fence; white space may surround it.
Wrapped(text) ==
    LET r == Strip(text)
    IN  /\ Len(r) >= 2
        /\ r[1] = Fence
        /\ r[Len(r)] = Fence
        /\ FencePositions(r) = {1, Len(r)}

\* The interior of a wrapped text: what stands behind the tag, if there is
\* one, and before the closing fence.
Interior(text) ==
    LET r == Strip(text)
    IN  SubSeq(r, IF Len(r) > 2 /\ r[2] = Tag THEN 3 ELSE 2, Len(r) - 1)

\* C17: the post-processing turns a reply wrapped in a fenced block, with
\* or without the tag sql, into the trimmed interior of the block, and a
\* reply without any fence into the trimmed reply.
C17_FenceStripping ==
    raw_sql # Pending =>
        /\ Wrapped(response) => raw_sql = Strip(Interior(response))
        /\ FencePositions(response) = {} => raw_sql = Strip(response)

\* The reply ```sql SELECT ``` with white space around the statement has
\* become the statement alone.
C17_Witness ==
    /\ response = <<Fence, Tag, Ws, Sql("SELECT", "t"), Ws, Fence>>
    /\ raw_sql = <<Sql("SELECT", "t")>>

====
